---- MODULE Spec2Model ----
(***************************************************************************)
(* A model of rproc: readers of Linux /proc pseudo-files.                  *)
(*                                                                         *)
(* Text is modelled at the character level: a string is a sequence of      *)
(* one-character strings, so that trimming, splitting, prefix tests and    *)
(* decimal decoding are computed the way the code computes them.           *)
(***************************************************************************)
EXTENDS Integers, Sequences, FiniteSets, TLC

VARIABLES
    \* pure version encoding applied to a pair of triples
    va, vb, ra, rb, vpc,
    \* a record parser applied to one line: the line and what it was made of,
    \* the parser, whether the build has debug assertions, the result
    pLine, pGiven, pKind, pDebug, pRes,
    \* the entry point a caller invokes, and how far the call got
    call, pc,
    \* /proc/sys/kernel/osrelease, the text given to from_str, and the result
    relFile, relText, relRes,
    \* /proc/pressure/<domain> and what the kernel wrote into it (how many
    \* well-formed fields, and their values), the lazily initialised
    \* KERNEL_VERSION, the field count of the selected format, and the result
    psiDomain, psiFile, psiGiven, kernelVersion, psiNbVar, psiRes,
    \* /proc/stat as lines, the index of the next line, the accumulated Stat
    statFile, statPos, stats,
    \* from_str on a version text and on the same text followed by a suffix:
    \* the triple and suffix the texts are written from, and the two results
    sfxGiven, sfxPlain, sfxFull,
    \* threads that dereference KERNEL_VERSION: where each thread is, how many
    \* accesses it still makes, the value its initialiser run decoded, what
    \* its last access observed; how often the initialiser ran, and the
    \* values published
    thPc, thLeft, thLocal, thSeen, kvRuns, kvPublished

versionVars == <<va, vb, ra, rb, vpc>>

parseVars == <<pLine, pGiven, pKind, pDebug, pRes>>

releaseVars == <<relFile, relText, relRes>>

psiVars == <<psiDomain, psiFile, psiGiven, kernelVersion, psiNbVar, psiRes>>

statVars == <<statFile, statPos, stats>>

suffixVars == <<sfxGiven, sfxPlain, sfxFull>>

threadVars == <<thPc, thLeft, thLocal, thSeen, kvRuns, kvPublished>>

otherVars == <<suffixVars, threadVars>>

vars == <<versionVars, parseVars, call, pc, releaseVars, psiVars, statVars, otherVars>>

(***************************************************************************)
(* Characters and generic string helpers                                   *)
(***************************************************************************)
\* An operator applied to the value of its argument: the argument is
\* evaluated once, however often the operator's body uses it
Let1(F(_), x) == CHOOSE r \in {F(v) : v \in {x}} : TRUE

Digits == <<"0", "1", "2", "3", "4", "5", "6", "7", "8", "9">>

DigitSet == {Digits[i] : i \in 1..10}

DigitVal(c) == (CHOOSE i \in 1..10 : Digits[i] = c) - 1

WhiteSet == {" ", "\t", "\n", "\r"}

\* char::is_whitespace restricted to the characters the inputs contain
IsWhite(c) == c \in WhiteSet

IsEol(c) == c \in {"\n", "\r"}

\* Decimal text of a natural number (what the kernel prints)
RECURSIVE ToDec(_)
ToDec(n) == IF n < 10 THEN <<Digits[n + 1]>> ELSE ToDec(n \div 10) \o <<Digits[(n % 10) + 1]>>

RECURSIVE Join(_, _)
Join(toks, sep) ==
    IF Len(toks) = 0 THEN <<>>
    ELSE IF Len(toks) = 1 THEN toks[1]
    ELSE toks[1] \o sep \o Join(Tail(toks), sep)

AllDigits(s) == Let1(LAMBDA t : \A j \in 1..Len(t) : t[j] \in DigitSet, s)

\* Value of a digit string, most significant digit first
RECURSIVE DecValue(_, _)
DecValue(s, acc) == IF Len(s) = 0 THEN acc ELSE DecValue(Tail(s), acc * 10 + DigitVal(s[1]))

\* The least element of a set of numbers, or dflt for the empty set
Least(S, dflt) ==
    Let1(LAMBDA T : IF T = {} THEN dflt ELSE CHOOSE i \in T : \A j \in T : i <= j, S)

Greatest(S, dflt) ==
    Let1(LAMBDA T : IF T = {} THEN dflt ELSE CHOOSE i \in T : \A j \in T : i >= j, S)

Drop(s, n) == SubSeq(s, n + 1, Len(s))

\* The position of the first character of t that is in set C (or is not,
\* for in = FALSE); Len(t) + 1 when there is none
FirstPos(t, C, in) == Least({j \in 1..Len(t) : (t[j] \in C) = in}, Len(t) + 1)

(***************************************************************************)
(* core::str::parse for the integer types the code uses                    *)
(***************************************************************************)
ParseFail == [ok |-> FALSE, val |-> 0]

\* Range check of a parsed magnitude
InRange(v, min, max) == IF v > max \/ v < min THEN ParseFail ELSE [ok |-> TRUE, val |-> v]

\* <unsigned>::from_str: an optional '+', then one or more digits, and the
\* value must not exceed the type's maximum.
ParseUnsigned(s, max) ==
    Let1(LAMBDA body : IF Len(body) = 0 \/ ~AllDigits(body) THEN ParseFail
                       ELSE InRange(DecValue(body, 0), 0, max),
         IF Len(s) > 0 /\ s[1] = "+" THEN Tail(s) ELSE s)

\* <signed>::from_str: an optional '+' or '-', then one or more digits, and
\* the value must lie within the type's range.
ParseSigned(s, min, max) ==
    Let1(LAMBDA body : IF Len(body) = 0 \/ ~AllDigits(body) THEN ParseFail
                       ELSE InRange(IF s[1] = "-" THEN 0 - DecValue(body, 0)
                                    ELSE DecValue(body, 0), min, max),
         IF Len(s) > 0 /\ s[1] \in {"+", "-"} THEN Tail(s) ELSE s)

U8Max == 255

U16Max == 65535

\* Counters are u64 and cpu numbers i32. TLC's integers are narrower, so the
\* numerals of the model have at most nine digits and CounterMax, the largest
\* of them, stands for the maximum of both types: the overflow branch of
\* parse is modelled, and no input of the model takes it.
CounterMax == 999999999

ParseU8(s) == ParseUnsigned(s, U8Max)

ParseU16(s) == ParseUnsigned(s, U16Max)

ParseU64(s) == ParseUnsigned(s, CounterMax)

ParseI32(s) == ParseSigned(s, 0 - CounterMax, CounterMax)

\* str::trim_matches(|m| m == '\n' || m == '\r'): strips both ends
TrimEol(s) ==
    Let1(LAMBDA t : Let1(LAMBDA keep : SubSeq(t, Least(keep, 1), Greatest(keep, 0)),
                         {j \in 1..Len(t) : ~IsEol(t[j])}),
         s)

\* str::split(c): the pieces between occurrences of c, empty pieces kept
RECURSIVE SplitOn(_, _)
SplitOn(s, c) ==
    Let1(LAMBDA t :
            Let1(LAMBDA i : IF i > Len(t) THEN <<t>>
                            ELSE <<SubSeq(t, 1, i - 1)>> \o SplitOn(Drop(t, i), c),
                 FirstPos(t, {c}, TRUE)),
         s)

\* str::split_whitespace: the maximal runs of non-whitespace characters
RECURSIVE SplitWs(_)
SplitWs(s) ==
    Let1(LAMBDA t :
            IF Len(t) = 0 THEN <<>>
            ELSE Let1(LAMBDA e : <<SubSeq(t, 1, e - 1)>> \o SplitWs(Drop(t, e - 1)),
                      FirstPos(t, WhiteSet, TRUE)),
         Let1(LAMBDA u : Drop(u, FirstPos(u, WhiteSet, FALSE) - 1), s))

SplitWhitespace(s) == SplitWs(s)

StartsWith(s, p) == Len(s) >= Len(p) /\ SubSeq(s, 1, Len(p)) = p

(***************************************************************************)
(* sys/kernel/osrelease.rs: version code                                   *)
(***************************************************************************)
\* Bitwise OR of two naturals
RECURSIVE BitOr(_, _)
BitOr(a, b) ==
    IF a = 0 THEN b
    ELSE IF b = 0 THEN a
    ELSE (IF (a % 2) + (b % 2) > 0 THEN 1 ELSE 0) + 2 * BitOr(a \div 2, b \div 2)

\* The operands are widened to u32 before shifting; u8 << 16 and u8 << 8
\* cannot leave 32 bits, so the reduction modulo 2^32 is the identity here
\* (2^32 itself is outside TLC's integers and is not written).
Shl(a, n) == a * (2 ^ n)

\* Mutants of kernel_version: the patch truncated to 8 bits instead of
\* saturated, and the minor shifted into the patch byte
kernel_version_truncating(major, minor, patch) ==
    BitOr(BitOr(Shl(major, 16), Shl(minor, 8)), patch % 256)

kernel_version_narrow_minor(major, minor, patch) ==
    BitOr(BitOr(Shl(major, 16), Shl(minor, 4)), IF patch > 255 THEN 255 ELSE patch)

kernel_version(major, minor, patch) ==
    BitOr(BitOr(Shl(major, 16), Shl(minor, 8)), IF patch > 255 THEN 255 ELSE patch)

OsReleaseNew(major, minor, patch) ==
    [version_code |-> kernel_version(major, minor, patch),
     major |-> major, minor |-> minor, patch |-> patch]

\* impl PartialEq / Ord for OsRelease: version_code alone decides
OsReleaseEq(x, y) == x.version_code = y.version_code

OsReleaseLt(x, y) == x.version_code < y.version_code

NoRelease == [version_code |-> 0, major |-> 0, minor |-> 0, patch |-> 0]

(***************************************************************************)
(* libc fscanf, for the directives the formats of this code use            *)
(***************************************************************************)
Ws == [k |-> "ws", c |-> <<>>]

ConvU == [k |-> "u", c |-> <<>>]

ConvF == [k |-> "f", c |-> <<>>]

ConvLlu == [k |-> "llu", c |-> <<>>]

\* A run of ordinary characters of the format, matched character by character
Lit(s) == [k |-> "lit", c |-> s]

EOF == -1

SkipWs(s) == Let1(LAMBDA t : Drop(t, FirstPos(t, WhiteSet, FALSE) - 1), s)

DigitRun(s) == Let1(LAMBDA t : SubSeq(t, 1, FirstPos(t, DigitSet, FALSE) - 1), s)

\* Matching the ordinary characters w against the input s: the number of
\* characters consumed before the first mismatch or the end of either
MatchLen(w, s) ==
    Let1(LAMBDA m : Least({j \in 1..m : w[j] # s[j]}, m + 1) - 1,
         IF Len(w) < Len(s) THEN Len(w) ELSE Len(s))

Signed(neg, v) == IF neg THEN 0 - v ELSE v

NoInput(s) == [eof |-> TRUE, ok |-> FALSE, val |-> 0, rest |-> s]

NoMatch(s) == [eof |-> FALSE, ok |-> FALSE, val |-> 0, rest |-> s]

Converted(v, rest) == [eof |-> FALSE, ok |-> TRUE, val |-> v, rest |-> rest]

\* %u and %llu: leading white space is skipped, then an optional sign and
\* the longest run of digits are consumed. A '-' negates the value in the
\* unsigned type; the model keeps the mathematical value, which agrees with
\* the stored one modulo every power of two up to the type's width.
ScanUnsigned(s0) ==
    Let1(LAMBDA s :
            IF Len(s) = 0 THEN NoInput(s)
            ELSE Let1(LAMBDA t :
                         Let1(LAMBDA ds : IF Len(ds) = 0 THEN NoMatch(s)
                                          ELSE Converted(Signed(s[1] = "-", DecValue(ds, 0)),
                                                         Drop(t, Len(ds))),
                              DigitRun(t)),
                      IF s[1] \in {"+", "-"} THEN Tail(s) ELSE s),
         SkipWs(s0))

\* The value, in hundredths, of an integer part and a fraction part
Hundredths(ip, fp) == DecValue(ip, 0) * 100 + DecValue(SubSeq(fp \o <<"0", "0">>, 1, 2), 0)

\* The digits after a '.' at the head of u, none when u has no '.' there
Fraction(u) == IF Len(u) > 0 /\ u[1] = "." THEN DigitRun(Tail(u)) ELSE <<>>

AfterFraction(u, fp) == IF Len(u) > 0 /\ u[1] = "." THEN Drop(u, 1 + Len(fp)) ELSE u

\* %f: leading white space is skipped, then an optional sign, digits, and an
\* optional '.' with more digits; at least one digit is needed. The value is
\* kept in hundredths (the kernel prints two decimals); exponents, inf and
\* nan do not occur in the inputs of the model.
ScanFloat(s0) ==
    Let1(LAMBDA s :
            IF Len(s) = 0 THEN NoInput(s)
            ELSE Let1(LAMBDA t :
                    Let1(LAMBDA ip :
                        Let1(LAMBDA u :
                            Let1(LAMBDA fp :
                                    IF Len(ip) + Len(fp) = 0 THEN NoMatch(s)
                                    ELSE Converted(Signed(s[1] = "-", Hundredths(ip, fp)),
                                                   AfterFraction(u, fp)),
                                 Fraction(u)),
                             Drop(t, Len(ip))),
                         DigitRun(t)),
                      IF s[1] \in {"+", "-"} THEN Tail(s) ELSE s),
         SkipWs(s0))

\* The scan stops at an input failure (the input ends where a directive
\* needs a character: EOF is returned before the first conversion, else the
\* number of items assigned) and at a matching failure (the number of items
\* assigned is returned)
InputFailure(st) == [st EXCEPT !.done = TRUE, !.n = IF st.cnt = 0 THEN EOF ELSE st.cnt]

MatchFailure(st) == [st EXCEPT !.done = TRUE, !.n = st.cnt]

\* One directive d against the input st.s; m is the length of the literal
\* match, r the conversion
ScanfDirective(st, d, m, r) ==
    CASE d.k = "ws" -> [st EXCEPT !.s = SkipWs(@)]
      [] d.k = "lit" /\ m = Len(d.c) -> [st EXCEPT !.s = Drop(@, m)]
      [] d.k = "lit" /\ m < Len(d.c) /\ m = Len(st.s) -> InputFailure(st)
      [] d.k = "lit" /\ m < Len(d.c) /\ m < Len(st.s) -> MatchFailure(st)
      [] d.k \in {"u", "f", "llu"} /\ r.eof -> InputFailure(st)
      [] d.k \in {"u", "f", "llu"} /\ ~r.eof /\ ~r.ok -> MatchFailure(st)
      [] d.k \in {"u", "f", "llu"} /\ ~r.eof /\ r.ok ->
            [st EXCEPT !.s = r.rest, !.cnt = @ + 1, !.vals = Append(@, r.val)]

ScanfStep(st, d) ==
    IF st.done THEN st
    ELSE Let1(LAMBDA m :
                Let1(LAMBDA r : ScanfDirective(st, d, m, r),
                     IF d.k = "f" THEN ScanFloat(st.s)
                     ELSE IF d.k \in {"u", "llu"} THEN ScanUnsigned(st.s)
                     ELSE NoMatch(st.s)),
              IF d.k = "lit" THEN MatchLen(d.c, st.s) ELSE 0)

\* The directives fmt[lo..hi] in order, from state st (the range is halved
\* to keep the evaluation shallow; the order of the directives is kept)
RECURSIVE ScanfRange(_, _, _, _)
ScanfRange(fmt, st, lo, hi) ==
    IF lo > hi THEN st
    ELSE IF lo = hi THEN ScanfStep(st, fmt[lo])
    ELSE Let1(LAMBDA mid : ScanfRange(fmt, mid, ((lo + hi) \div 2) + 1, hi),
              ScanfRange(fmt, st, lo, (lo + hi) \div 2))

\* fscanf(fmt, ...) on input s: n is the return value, vals the values
\* assigned, in order; arguments beyond Len(vals) are left untouched.
Scanf(fmt, s, cnt, vals) ==
    Let1(LAMBDA end : [n |-> IF end.done THEN end.n ELSE end.cnt, vals |-> end.vals],
         ScanfRange(fmt, [s |-> s, cnt |-> cnt, vals |-> vals, done |-> FALSE, n |-> 0],
                    1, Len(fmt)))

(***************************************************************************)
(* sys/kernel/osrelease.rs: reading and decoding the release               *)
(***************************************************************************)
\* A pseudo-file: whether open() succeeds, and what reading it yields
Absent == [exists |-> FALSE, data |-> <<>>]

File(data) == [exists |-> TRUE, data |-> data]

OSRELEASE_FMT == <<ConvU, Lit(<<".">>), ConvU, Lit(<<".">>), ConvU>>

OSRELEASE_FMT_NB_VAR == 3

Ok(v) == [tag |-> "Ok", val |-> v]

Err(v) == [tag |-> "Err", val |-> v]

Panic(v) == [tag |-> "Panic", val |-> v]

\* "as u8" and "as u16" of a c_uint
AsU8(v) == v % 256

AsU16(v) == v % 65536

\* OsRelease::current() on the content of /proc/sys/kernel/osrelease
\* The k-th pointer argument of an fscanf call keeps its initial value, zero
\* at every call of this code, unless the scan assigned it
Assigned(vals, k) == IF Len(vals) >= k THEN vals[k] ELSE 0

\* `File::open(OSRELEASE).unwrap()` when the open fails; the mutant hands
\* the failure back as an error value
OpenFailureReturned(default) == Err(default)

OpenFailureUnwrapped(default) == Panic(default)

OsReleaseCurrent(file) ==
    IF ~file.exists THEN OpenFailureUnwrapped(NoRelease)
    ELSE Let1(LAMBDA r :
                LET major == Assigned(r.vals, 1)
                    minor == Assigned(r.vals, 2)
                    patch == Assigned(r.vals, 3)
                IN  IF r.n # OSRELEASE_FMT_NB_VAR THEN Err(NoRelease)
                    ELSE Ok([version_code |-> kernel_version(AsU8(major), AsU8(minor), AsU16(patch)),
                             major |-> AsU8(major), minor |-> AsU8(minor), patch |-> AsU16(patch)]),
              Scanf(OSRELEASE_FMT, file.data, 0, <<>>))

\* <OsRelease as FromStr>::from_str: indexing a missing component panics,
\* a component that does not parse returns the ParseIntError
OsReleaseDecode(osrelease_v) ==
    LET major == ParseU8(osrelease_v[1])
        minor == ParseU8(osrelease_v[2])
        patch == ParseU16(osrelease_v[3])
    IN  IF ~major.ok THEN Err(NoRelease)
        ELSE IF Len(osrelease_v) < 2 THEN Panic(NoRelease)
        ELSE IF ~minor.ok THEN Err(NoRelease)
        ELSE IF Len(osrelease_v) < 3 THEN Panic(NoRelease)
        ELSE IF ~patch.ok THEN Err(NoRelease)
        ELSE Ok([version_code |-> kernel_version(major.val, minor.val, patch.val),
                 major |-> major.val, minor |-> minor.val, patch |-> patch.val])

\* Mutant of from_str: the text split at the dots without the suffix removed
OsReleaseFromStrWithSuffix(s) == Let1(OsReleaseDecode, SplitOn(TrimEol(s), "."))

OsReleaseFromStr(s) ==
    Let1(LAMBDA s_trimmed : Let1(OsReleaseDecode, SplitOn(s_trimmed[1], ".")),
         SplitOn(TrimEol(s), "-"))

(***************************************************************************)
(* pressure.rs                                                             *)
(***************************************************************************)
W_some == <<"s", "o", "m", "e">>

W_full == <<"f", "u", "l", "l">>

W_avg10 == <<"a", "v", "g", "1", "0", "=">>

W_avg60 == <<"a", "v", "g", "6", "0", "=">>

W_avg300 == <<"a", "v", "g", "3", "0", "0", "=">>

W_total == <<"t", "o", "t", "a", "l", "=">>

PressureFmtLine(word) ==
    <<Lit(word), Ws, Lit(W_avg10), ConvF, Ws, Lit(W_avg60), ConvF,
      Ws, Lit(W_avg300), ConvF, Ws, Lit(W_total), ConvLlu>>

PRESSURE_FMT == PressureFmtLine(W_some) \o <<Ws>> \o PressureFmtLine(W_full)

PRESSURE_FMT_NB_VAR == 8

PRESSURE_FMT_CPU_OLD == PressureFmtLine(W_some)

PRESSURE_FMT_CPU_OLD_NB_VAR == 4

KERNEL_5_13_VERSION_CODE == kernel_version(5, 13, 0)

PressureAvgDefault == [avg10 |-> 0, avg60 |-> 0, avg300 |-> 0, total |-> 0]

PressureStoreDefault == [some |-> PressureAvgDefault, full |-> PressureAvgDefault]

None == [tag |-> "None", val |-> PressureStoreDefault]

Some(v) == [tag |-> "Some", val |-> v]

PressureScan(fmt, file) == Scanf(fmt, file, 0, <<>>)

\* The PressureStore the eight pointer arguments point into, after the scan
PressureStoreOf(vals) ==
    [some |-> [avg10 |-> Assigned(vals, 1), avg60 |-> Assigned(vals, 2),
               avg300 |-> Assigned(vals, 3), total |-> Assigned(vals, 4)],
     full |-> [avg10 |-> Assigned(vals, 5), avg60 |-> Assigned(vals, 6),
               avg300 |-> Assigned(vals, 7), total |-> Assigned(vals, 8)]]

\* Mutant of parse_pressure_file: the count test dropped
parse_pressure_file_unchecked(file, fmt, nb_var) ==
    IF ~file.exists THEN None
    ELSE Let1(LAMBDA r : Some(PressureStoreOf(r.vals)), PressureScan(fmt, file.data))

parse_pressure_file(file, fmt, nb_var) ==
    IF ~file.exists THEN None
    ELSE Let1(LAMBDA r : IF r.n # nb_var THEN None ELSE Some(PressureStoreOf(r.vals)),
              PressureScan(fmt, file.data))

\* lazy_static KERNEL_VERSION: the first dereference runs
\* OsRelease::current().unwrap(); a panic there poisons the cell, and every
\* later dereference panics too
KernelVersionUninit == [state |-> "uninit", val |-> NoRelease]

KernelVersionDeref(kv, file) ==
    IF kv.state # "uninit" THEN kv
    ELSE LET r == OsReleaseCurrent(file)
         IN  IF r.tag = "Ok" THEN [state |-> "ready", val |-> r.val]
             ELSE [state |-> "poisoned", val |-> NoRelease]

Grammar(fmt, nb_var) == [fmt |-> fmt, nb_var |-> nb_var]

\* Mutant of the format choice: the comparison made strict
PressureGrammarStrict(t, code) ==
    IF t = "Cpu"
    THEN IF code > KERNEL_5_13_VERSION_CODE THEN Grammar(PRESSURE_FMT, PRESSURE_FMT_NB_VAR)
         ELSE Grammar(PRESSURE_FMT_CPU_OLD, PRESSURE_FMT_CPU_OLD_NB_VAR)
    ELSE Grammar(PRESSURE_FMT, PRESSURE_FMT_NB_VAR)

\* The match of PressureStore::new: the format and field count it passes to
\* parse_pressure_file; code is KERNEL_VERSION.version_code, read for Cpu only
PressureGrammar(t, code) ==
    IF t = "Cpu"
    THEN IF code >= KERNEL_5_13_VERSION_CODE THEN Grammar(PRESSURE_FMT, PRESSURE_FMT_NB_VAR)
         ELSE Grammar(PRESSURE_FMT_CPU_OLD, PRESSURE_FMT_CPU_OLD_NB_VAR)
    ELSE Grammar(PRESSURE_FMT, PRESSURE_FMT_NB_VAR)

(***************************************************************************)
(* stat/: the record parsers                                               *)
(***************************************************************************)
W_btime == <<"b", "t", "i", "m", "e">>

W_ctxt == <<"c", "t", "x", "t">>

W_processes == <<"p", "r", "o", "c", "e", "s", "s", "e", "s">>

W_procs_blocked == <<"p", "r", "o", "c", "s", "_", "b", "l", "o", "c", "k", "e", "d">>

W_procs_running == <<"p", "r", "o", "c", "s", "_", "r", "u", "n", "n", "i", "n", "g">>

W_softirq == <<"s", "o", "f", "t", "i", "r", "q">>

W_page == <<"p", "a", "g", "e">>

W_swap == <<"s", "w", "a", "p">>

W_cpu == <<"c", "p", "u">>

\* The tokens every from_str starts from
Tokens(s) == SplitWhitespace(TrimEol(s))

\* The struct literal of a from_str evaluates tokens[1..n] (token 0 is the
\* keyword) in order: indexing a token the line does not have panics, a
\* token that is not a u64 numeral returns the ParseIntError.
RECURSIVE DecodeFields(_, _, _, _)
DecodeFields(toks, k, n, acc) ==
    IF k > n THEN [tag |-> "Ok", val |-> acc]
    ELSE IF Len(toks) < k + 1 THEN [tag |-> "Panic", val |-> acc]
    ELSE Let1(LAMBDA f : IF ~f.ok THEN [tag |-> "Err", val |-> acc]
                         ELSE DecodeFields(toks, k + 1, n, Append(acc, f.val)),
              ParseU64(toks[k + 1]))

CpuStatDefault ==
    [cpu_number |-> 0, user |-> 0, nice |-> 0, system |-> 0, idle |-> 0, iowait |-> 0,
     irq |-> 0, softirq |-> 0, steal |-> 0, guest |-> 0, guest_nice |-> 0]

\* Mutant of the struct literal: user and nice taken from each other's token
CpuStatOfSwapped(n, f) ==
    [cpu_number |-> n, user |-> f[2], nice |-> f[1], system |-> f[3], idle |-> f[4],
     iowait |-> f[5], irq |-> f[6], softirq |-> f[7], steal |-> f[8], guest |-> f[9],
     guest_nice |-> f[10]]

CpuStatOf(n, f) ==
    [cpu_number |-> n, user |-> f[1], nice |-> f[2], system |-> f[3], idle |-> f[4],
     iowait |-> f[5], irq |-> f[6], softirq |-> f[7], steal |-> f[8], guest |-> f[9],
     guest_nice |-> f[10]]

\* What a from_str returns for the outcome r of decoding the counters
Decoded(r, Record(_), default) ==
    Let1(LAMBDA x : IF x.tag = "Ok" THEN Ok(Record(x.val)) ELSE [tag |-> x.tag, val |-> default], r)

CpuFields == 10

\* The cpu number of a keyword token of at least three bytes
CpuNumber(kw) == IF Len(kw) = 3 THEN [ok |-> TRUE, val |-> -1] ELSE ParseI32(Drop(kw, 3))

\* <CpuStat as FromStr>::from_str; dbg: the build has debug assertions
CpuStatFromTokens(toks, dbg) ==
    IF Len(toks) = 0 THEN Panic(CpuStatDefault)
    ELSE IF dbg /\ ~StartsWith(toks[1], W_cpu) THEN Panic(CpuStatDefault)
    ELSE IF Len(toks[1]) < 3 THEN Panic(CpuStatDefault)
    ELSE Let1(LAMBDA n : IF ~n.ok THEN Err(CpuStatDefault)
                         ELSE Decoded(DecodeFields(toks, 1, CpuFields, <<>>),
                                      LAMBDA f : CpuStatOf(n.val, f), CpuStatDefault),
              CpuNumber(toks[1]))

CpuStatFromStr(s, dbg) == Let1(LAMBDA toks : CpuStatFromTokens(toks, dbg), Tokens(s))

\* <SimpleU64Stat as FromStr>::from_str
SimpleFields == 1

SimpleU64StatFromStr(s) ==
    Let1(LAMBDA toks : Decoded(DecodeFields(toks, 1, SimpleFields, <<>>), LAMBDA f : f[1], 0),
         Tokens(s))

\* <DoubleU64Stat as FromStr>::from_str
DoubleU64StatDefault == [ins |-> 0, out |-> 0]

DoubleFields == 2

DoubleU64StatFromStr(s) ==
    Let1(LAMBDA toks : Decoded(DecodeFields(toks, 1, DoubleFields, <<>>),
                               LAMBDA f : [ins |-> f[1], out |-> f[2]], DoubleU64StatDefault),
         Tokens(s))

\* <Softirqs as FromStr>::from_str
SoftirqsDefault ==
    [all |-> 0, hi |-> 0, timer |-> 0, net_tx |-> 0, net_rx |-> 0, block |-> 0,
     irq_poll |-> 0, tasklet |-> 0, sched |-> 0, hrtimer |-> 0, rcu |-> 0]

SoftirqFields == 11

SoftirqsOf(f) ==
    [all |-> f[1], hi |-> f[2], timer |-> f[3], net_tx |-> f[4], net_rx |-> f[5],
     block |-> f[6], irq_poll |-> f[7], tasklet |-> f[8], sched |-> f[9], hrtimer |-> f[10],
     rcu |-> f[11]]

SoftirqsFromTokens(toks, dbg) ==
    IF dbg /\ Len(toks) = 0 THEN Panic(SoftirqsDefault)
    ELSE IF dbg /\ ~StartsWith(toks[1], W_softirq) THEN Panic(SoftirqsDefault)
    ELSE Decoded(DecodeFields(toks, 1, SoftirqFields, <<>>), SoftirqsOf, SoftirqsDefault)

SoftirqsFromStr(s, dbg) == Let1(LAMBDA toks : SoftirqsFromTokens(toks, dbg), Tokens(s))

(***************************************************************************)
(* stat/mod.rs: the aggregator                                             *)
(***************************************************************************)
StatDefault ==
    [cpus |-> <<>>, ctxt |-> 0, btime |-> 0, processes |-> 0, procs_running |-> 0,
     procs_blocked |-> 0, softirqs |-> SoftirqsDefault, page |-> DoubleU64StatDefault,
     swap |-> DoubleU64StatDefault]

\* `field = X::from_str(&l).unwrap()`: an Err and a panic both unwind;
\* Set(v) is the Stat with the parsed value v stored
Unwrapped(st, r, Set(_)) == Let1(LAMBDA x : IF x.tag = "Ok" THEN Ok(Set(x.val)) ELSE Panic(st), r)

\* `_ => eprintln!("{} section not supported", stat_type)`; the mutant makes
\* the unsupported section fatal
SkipLineFatal(st, stat_type) == Panic(st)

SkipLine(st, stat_type) == Ok(st)

\* `stats.cpus.push(v)`; the mutant puts the record in front
PushCpuFront(st, v) == [st EXCEPT !.cpus = <<v>> \o @]

PushCpu(st, v) == [st EXCEPT !.cpus = Append(@, v)]

\* The match on the first token of line l
StatDispatch(st, l, stat_type) ==
    IF stat_type = W_btime
    THEN Unwrapped(st, SimpleU64StatFromStr(l), LAMBDA v : [st EXCEPT !.btime = v])
    ELSE IF stat_type = W_ctxt
    THEN Unwrapped(st, SimpleU64StatFromStr(l), LAMBDA v : [st EXCEPT !.ctxt = v])
    ELSE IF stat_type = W_processes
    THEN Unwrapped(st, SimpleU64StatFromStr(l), LAMBDA v : [st EXCEPT !.processes = v])
    ELSE IF stat_type = W_procs_blocked
    THEN Unwrapped(st, SimpleU64StatFromStr(l), LAMBDA v : [st EXCEPT !.procs_blocked = v])
    ELSE IF stat_type = W_procs_running
    THEN Unwrapped(st, SimpleU64StatFromStr(l), LAMBDA v : [st EXCEPT !.procs_running = v])
    ELSE IF stat_type = W_softirq
    THEN Unwrapped(st, SoftirqsFromStr(l, TRUE), LAMBDA v : [st EXCEPT !.softirqs = v])
    ELSE IF stat_type = W_page
    THEN Unwrapped(st, DoubleU64StatFromStr(l), LAMBDA v : [st EXCEPT !.page = v])
    ELSE IF stat_type = W_swap
    THEN Unwrapped(st, DoubleU64StatFromStr(l), LAMBDA v : [st EXCEPT !.swap = v])
    ELSE IF StartsWith(stat_type, W_cpu)
    THEN Unwrapped(st, CpuStatFromStr(l, TRUE), LAMBDA v : PushCpu(st, v))
    ELSE SkipLine(st, stat_type)

\* The body of the loop over the lines for one line l (lines() has removed
\* the terminator; the lines of the model are valid UTF-8):
\* l.split_whitespace().next().unwrap() panics on a line without a token
\* (the mutant keeps the first ctxt value when a second ctxt line comes)
StatLineStepFirstWins(st, l) ==
    Let1(LAMBDA toks : IF Len(toks) = 0 THEN Panic(st)
                       ELSE IF toks[1] = W_ctxt /\ st.ctxt # 0 THEN Ok(st)
                       ELSE StatDispatch(st, l, toks[1]),
         SplitWhitespace(l))

StatLineStep(st, l) ==
    Let1(LAMBDA toks : IF Len(toks) = 0 THEN Panic(st) ELSE StatDispatch(st, l, toks[1]),
         SplitWhitespace(l))

(***************************************************************************)
(* Inputs                                                                  *)
(***************************************************************************)
Majors == {0, 3, 4, 5, 255}

Minors == {0, 4, 14, 18, 255}

Patches == {0, 12, 254, 255, 256, 288, 300, 65535}

Triples == [major : Majors, minor : Minors, patch : Patches]

\* Release texts: well formed with and without suffix and terminator, with
\* too few components, and with components that are not numerals
ReleaseTexts ==
    {<<"5", ".", "1", "4", ".", "1", "2", "-", "a", "m", "d", "6", "4", "\n">>,
     <<"5", ".", "1", "4", ".", "1", "2", "\n">>,
     <<"5", ".", "1", "4", ".", "1", "2">>,
     <<"5", ".", "1", "2", ".", "1", "9", "\n">>,
     <<"5", ".", "1", "3", ".", "0", "\n">>,
     <<"4", ".", "4", ".", "2", "8", "8", "\n">>,
     <<"6", ".", "1", ".", "0", "-", "r", "c", "1", "-", "x", ".", "y", "\n">>,
     <<"5", ".", "1", "3", "\n">>,
     <<"5", ".", "1", "4", "-", "a", "m", "d", "6", "4", "\n">>,
     <<"5", "\n">>,
     <<>>,
     <<"g", "a", "r", "b", "a", "g", "e", "\n">>,
     <<"5", ".", "x", ".", "1", "\n">>,
     <<"5", ".", "1", "4", ".", "x", "\n">>,
     <<"5", ".", "1", "4", ".", "1", "2", "a", "b", "c", "\n">>,
     <<"2", "6", "1", ".", "1", "3", ".", "0", "\n">>,
     <<"5", ".", ".", "1", "\n">>}

ReleaseFiles == {Absent} \cup {File(t) : t \in ReleaseTexts}

Sp == <<" ">>

Nl == <<"\n">>

\* "<int>.<2 decimals>" of a value in hundredths
Fixed2(h) == ToDec(h \div 100) \o <<".">> \o <<Digits[((h \div 10) % 10) + 1], Digits[(h % 10) + 1]>>

\* The items of /proc/pressure/<domain> in file order, each with the
\* separator that precedes it; item 1 and item 6 are the line keywords
PsiItems(sv, fv) ==
    <<W_some,
      Sp \o W_avg10 \o Fixed2(sv.avg10), Sp \o W_avg60 \o Fixed2(sv.avg60),
      Sp \o W_avg300 \o Fixed2(sv.avg300), Sp \o W_total \o ToDec(sv.total),
      Nl \o W_full,
      Sp \o W_avg10 \o Fixed2(fv.avg10), Sp \o W_avg60 \o Fixed2(fv.avg60),
      Sp \o W_avg300 \o Fixed2(fv.avg300), Sp \o W_total \o ToDec(fv.total) \o Nl>>

\* The file cut after its first k fields (k = 8: the whole file; k = 4: the
\* "some" line alone, as kernels before 5.13 print it for cpu)
PsiText(k, sv, fv) ==
    LET items == PsiItems(sv, fv)
        n     == IF k = 0 THEN 0 ELSE IF k <= 4 THEN k + 1 ELSE k + 2
    IN  Join(SubSeq(items, 1, n), <<>>) \o (IF k = 4 THEN Nl ELSE <<>>)

\* The whole file with the value of field j replaced by a non-numeral
PsiBadField(j, sv, fv) ==
    LET items == PsiItems(sv, fv)
        i     == IF j <= 4 THEN j + 1 ELSE j + 2
        name  == <<W_avg10, W_avg60, W_avg300, W_total>>[((j - 1) % 4) + 1]
    IN  Join([x \in 1..10 |-> IF x = i THEN Sp \o name \o <<"x">> ELSE items[x]], <<>>)

SomeValues == {[avg10 |-> 0, avg60 |-> 0, avg300 |-> 0, total |-> 0],
               [avg10 |-> 150, avg60 |-> 75, avg300 |-> 10025, total |-> 123456]}

FullValues == {[avg10 |-> 0, avg60 |-> 0, avg300 |-> 0, total |-> 0],
               [avg10 |-> 225, avg60 |-> 5, avg300 |-> 310, total |-> 777]}

Given(fields, sv, fv) == [fields |-> fields, some |-> sv, full |-> fv]

NothingGiven == Given(0, PressureAvgDefault, PressureAvgDefault)

\* A pressure file together with what was written into it
PsiInputs ==
    {[file |-> Absent, given |-> NothingGiven]}
    \cup {[file |-> File(PsiText(k, sv, fv)), given |-> Given(k, sv, fv)] :
            k \in 0..PRESSURE_FMT_NB_VAR, sv \in SomeValues, fv \in FullValues}
    \cup {[file |-> File(PsiBadField(j, sv, fv)), given |-> Given(j - 1, sv, fv)] :
            j \in 1..PRESSURE_FMT_NB_VAR, sv \in SomeValues, fv \in FullValues}

Domains == {"Cpu", "Mem", "Io"}

\* A line of /proc/stat: the keyword and the decimal counters, one space apart
Numerals(nums) == [i \in 1..Len(nums) |-> ToDec(nums[i])]

Line(kw, nums) == Join(<<kw>> \o Numerals(nums), Sp)

W_unknownsection == <<"u", "n", "k", "n", "o", "w", "n", "s", "e", "c", "t", "i", "o", "n">>

CpuCounters == <<10132153, 290696, 3084719, 46828483, 16683, 42, 25195, 4242, 175628, 424242>>

Cpu0Counters == <<1393280, 32966, 572056, 13343292, 6130, 0, 17875, 0, 23933, 0>>

SoftirqCounters == <<229245889, 94, 60001584, 13619, 5175704, 2471304, 28, 51212741, 59130143, 0, 51240672>>

\* The aggregate line has two spaces after the keyword, as the kernel prints it
L_cpu == W_cpu \o Sp \o Sp \o Join(Numerals(CpuCounters), Sp)

L_cpu0 == Line(W_cpu \o <<"0">>, Cpu0Counters)

L_cpuN == Line(W_cpu \o <<"N">>, Cpu0Counters)

L_btime == Line(W_btime, <<12345>>)

L_ctxt == Line(W_ctxt, <<115315>>)

L_ctxt2 == Line(W_ctxt, <<7>>)

L_ctxt_float == L_ctxt \o <<".", "0">>

L_processes == Line(W_processes, <<42>>)

L_page == Line(W_page, <<5741, 1808>>)

L_page_short == Line(W_page, <<5741>>)

L_softirq == Line(W_softirq, SoftirqCounters)

L_unknown == Line(W_unknownsection, <<1, 2, 3>>)

L_empty == <<>>

\* Lines a /proc/stat may hold: well formed, unrecognised, with a field that
\* is no numeral, with too few fields, and without any token
StatLines ==
    {L_cpu, L_cpu0, L_cpuN, L_btime, L_ctxt, L_ctxt2, L_ctxt_float, L_page,
     L_page_short, L_unknown, L_empty}

MaxLines == 3

RECURSIVE SeqsUpTo(_, _)
SeqsUpTo(S, n) ==
    IF n = 0 THEN {<<>>}
    ELSE LET shorter == SeqsUpTo(S, n - 1)
         IN  shorter \cup {Append(q, x) : q \in {r \in shorter : Len(r) = n - 1}, x \in S}

\* A longer file: two scalar sections, two cpu lines and an unsupported one
Fixture == <<L_btime, L_ctxt, L_cpu, L_unknown, L_cpu0>>

\* A line of white space only, and a file with such a line between two sections
L_blank == Sp \o <<"\t">> \o Sp

BlankInside == <<L_btime, L_blank, L_ctxt>>

\* Files with the sections kept out of the enumerated lines
Sections == <<L_processes, L_softirq, L_page>>

SectionsAfterBad == <<L_processes, L_softirq, L_page_short>>

StatFiles ==
    {Absent, File(Fixture), File(BlankInside), File(Sections), File(SectionsAfterBad)}
    \cup {File(ls) : ls \in SeqsUpTo(StatLines, MaxLines)}

\* --- lines handed to one record parser ---
CpuKeywords ==
    {W_cpu, W_cpu \o <<"0">>, W_cpu \o <<"2">>, W_cpu \o <<"1", "2">>, W_cpu \o <<"N">>,
     W_cpu \o <<"-", "1">>, W_cpu \o <<"-">>, W_cpu \o <<"2", "x">>}

SimpleKeywords == {W_btime, W_ctxt, W_processes, W_procs_blocked, W_procs_running}

DoubleKeywords == {W_page, W_swap}

Kinds == {"cpu", "softirq", "double", "simple"}

KeywordsOf(kind) ==
    IF kind = "cpu" THEN CpuKeywords
    ELSE IF kind = "softirq" THEN {W_softirq}
    ELSE IF kind = "double" THEN DoubleKeywords
    ELSE SimpleKeywords

\* Counters a line may carry after its keyword
MaxCounters == 12

\* The counter written at position i: different at every position
CounterValue(i) == 1000 * i + 7

Terminators == {<<>>, Nl, <<"\r">> \o Nl}

\* A line of keyword kw with n counters, of which the one at position bad
\* (if any) is no numeral
ParseLine(kw, n, bad, sep, eol) ==
    Join(<<kw>> \o [i \in 1..n |-> IF i = bad THEN <<"x">> ELSE ToDec(CounterValue(i))], sep) \o eol

\* White space between two tokens
Separators == {Sp, Sp \o Sp, <<"\t">> \o Sp}

\* What a line was made of; bad = 0 when all its counters are numerals
ParseGiven(kw, n, bad) == [kw |-> kw, n |-> n, bad |-> bad]

NothingParsed == ParseGiven(<<>>, 0, 0)

(***************************************************************************)
(* The state machine                                                       *)
(***************************************************************************)
ZeroTriple == [major |-> 0, minor |-> 0, patch |-> 0]

VersionIdle == va = ZeroTriple /\ vb = ZeroTriple /\ ra = NoRelease /\ rb = NoRelease /\ vpc = "off"

Pending == [tag |-> "Pending", val |-> [value |-> 0]]

ParseIdle ==
    pLine = <<>> /\ pGiven = NothingParsed /\ pKind = "none" /\ pDebug = FALSE /\ pRes = Pending

NotCalled == [tag |-> "NotCalled", val |-> NoRelease]

SuffixIdle ==
    sfxGiven = [version |-> ZeroTriple, suffix |-> <<>>] /\ sfxPlain = NotCalled /\ sfxFull = NotCalled

\* Threads that access KERNEL_VERSION at the same time
MaxThreads == 2

Threads == 1..MaxThreads

\* Accesses one thread makes
MaxAccesses == 2

NotSeen == [tag |-> "NotSeen", val |-> NoRelease]

Seen(v) == [tag |-> "Seen", val |-> v]

ThreadsIdle ==
    /\ thPc = [t \in Threads |-> "off"] /\ thLeft = [t \in Threads |-> 0]
    /\ thLocal = [t \in Threads |-> NoRelease] /\ thSeen = [t \in Threads |-> NotSeen]
    /\ kvRuns = 0 /\ kvPublished = <<>>

OtherIdle == SuffixIdle /\ ThreadsIdle

EntryIdle ==
    /\ call = "none" /\ pc = "off"
    /\ relFile = Absent /\ relText = <<>> /\ relRes = Err(NoRelease)
    /\ psiDomain = "Mem" /\ psiFile = Absent /\ psiGiven = NothingGiven
    /\ kernelVersion = KernelVersionUninit
    /\ psiNbVar = 0 /\ psiRes = None
    /\ statFile = Absent /\ statPos = 1 /\ stats = StatDefault

\* --- kernel_version and OsRelease::new on two triples ---
InitVersion ==
    /\ va \in Triples /\ vb \in Triples
    /\ ra = NoRelease /\ rb = NoRelease /\ vpc = "start"
    /\ ParseIdle /\ EntryIdle /\ OtherIdle

NewPair ==
    /\ vpc = "start"
    /\ ra' = OsReleaseNew(va.major, va.minor, va.patch)
    /\ rb' = OsReleaseNew(vb.major, vb.minor, vb.patch)
    /\ vpc' = "done"
    /\ UNCHANGED <<va, vb, parseVars, call, otherVars, pc, releaseVars, psiVars, statVars>>

NextVersion == NewPair

SpecVersion == InitVersion /\ [][NextVersion]_vars

\* --- the entry points that read pseudo-files, one call per run ---
InitCurrent ==
    /\ call = "current" /\ pc = "start"
    /\ relFile \in ReleaseFiles /\ relText = <<>> /\ relRes = Err(NoRelease)
    /\ psiDomain = "Mem" /\ psiFile = Absent /\ psiGiven = NothingGiven
    /\ kernelVersion = KernelVersionUninit
    /\ psiNbVar = 0 /\ psiRes = None
    /\ statFile = Absent /\ statPos = 1 /\ stats = StatDefault

InitFromStr ==
    /\ call = "from_str" /\ pc = "start"
    /\ relFile = Absent /\ relText \in ReleaseTexts /\ relRes = Err(NoRelease)
    /\ psiDomain = "Mem" /\ psiFile = Absent /\ psiGiven = NothingGiven
    /\ kernelVersion = KernelVersionUninit
    /\ psiNbVar = 0 /\ psiRes = None
    /\ statFile = Absent /\ statPos = 1 /\ stats = StatDefault

InitPressure ==
    /\ call = "pressure" /\ pc = "start"
    /\ relFile \in ReleaseFiles /\ relText = <<>> /\ relRes = Err(NoRelease)
    /\ psiDomain \in Domains
    /\ \E in \in PsiInputs : psiFile = in.file /\ psiGiven = in.given
    /\ kernelVersion = KernelVersionUninit
    /\ psiNbVar = 0 /\ psiRes = None
    /\ statFile = Absent /\ statPos = 1 /\ stats = StatDefault

InitStat ==
    /\ call = "stat" /\ pc = "start"
    /\ relFile = Absent /\ relText = <<>> /\ relRes = Err(NoRelease)
    /\ psiDomain = "Mem" /\ psiFile = Absent /\ psiGiven = NothingGiven
    /\ kernelVersion = KernelVersionUninit
    /\ psiNbVar = 0 /\ psiRes = None
    /\ statFile \in StatFiles /\ statPos = 1 /\ stats = StatDefault

Init ==
    /\ VersionIdle /\ ParseIdle /\ OtherIdle
    /\ (InitCurrent \/ InitFromStr \/ InitPressure \/ InitStat)

Outcome(r) == IF r.tag = "Panic" THEN "panicked" ELSE "returned"

\* OsRelease::current()
CallCurrent ==
    /\ call = "current" /\ pc = "start"
    /\ relRes' = OsReleaseCurrent(relFile)
    /\ pc' = Outcome(relRes')
    /\ UNCHANGED <<versionVars, parseVars, call, otherVars, relFile, relText, psiVars, statVars>>

\* OsRelease::from_str(relText)
CallFromStr ==
    /\ call = "from_str" /\ pc = "start"
    /\ relRes' = OsReleaseFromStr(relText)
    /\ pc' = Outcome(relRes')
    /\ UNCHANGED <<versionVars, parseVars, call, otherVars, relFile, relText, psiVars, statVars>>

\* PressureStore::new(psiDomain); only the Cpu arm dereferences KERNEL_VERSION
PressureNew ==
    /\ call = "pressure" /\ pc = "start"
    /\ kernelVersion' = IF psiDomain = "Cpu" THEN KernelVersionDeref(kernelVersion, relFile)
                        ELSE kernelVersion
    /\ IF kernelVersion'.state = "poisoned"
       THEN pc' = "panicked" /\ UNCHANGED <<psiNbVar, psiRes>>
       ELSE LET g == PressureGrammar(psiDomain, kernelVersion'.val.version_code)
            IN  /\ psiNbVar' = g.nb_var
                /\ psiRes' = parse_pressure_file(psiFile, g.fmt, g.nb_var)
                /\ pc' = "returned"
    /\ UNCHANGED <<versionVars, parseVars, call, otherVars, releaseVars, psiDomain, psiFile, psiGiven, statVars>>

\* Stat::parse_stat_file: File::open(STAT).unwrap()
StatOpen ==
    /\ call = "stat" /\ pc = "start"
    /\ pc' = IF statFile.exists THEN "reading" ELSE "panicked"
    /\ UNCHANGED <<versionVars, parseVars, call, otherVars, releaseVars, psiVars, statVars>>

\* One turn of the loop over the lines
StatLine ==
    /\ call = "stat" /\ pc = "reading" /\ statPos <= Len(statFile.data)
    /\ LET r == StatLineStep(stats, statFile.data[statPos])
       IN  /\ stats' = r.val
           /\ pc' = IF r.tag = "Ok" THEN "reading" ELSE "panicked"
    /\ statPos' = statPos + 1
    /\ UNCHANGED <<versionVars, parseVars, call, otherVars, releaseVars, psiVars, statFile>>

\* Ok(stats), unwrapped by Stat::new
StatReturn ==
    /\ call = "stat" /\ pc = "reading" /\ statPos > Len(statFile.data)
    /\ pc' = "returned"
    /\ UNCHANGED <<versionVars, parseVars, call, otherVars, releaseVars, psiVars, statVars>>

Next == CallCurrent \/ CallFromStr \/ PressureNew \/ StatOpen \/ StatLine \/ StatReturn

Spec == Init /\ [][Next]_vars

\* --- OsRelease::from_str on a version text with and without a suffix ---
\* Suffixes: plain, empty, with dashes, with dots, with a terminator
Suffixes ==
    {<<"a", "m", "d", "6", "4">>, <<>>, <<"r", "c", "1", "-", "x", ".", "y">>, <<"1", ".", "2">>,
     <<"-">>, <<".">>, <<"-", "9", ".", "9", ".", "9">>, <<"a", "m", "d", "6", "4", "\n">>,
     <<"4", "-", "a", "\r", "\n">>}

\* Triples whose numerals from_str accepts: major and minor in u8, patch in u16
WellFormedTriples == {t \in Triples : t.major <= U8Max /\ t.minor <= U8Max /\ t.patch <= U16Max}

VersionText(t) == Join(<<ToDec(t.major), ToDec(t.minor), ToDec(t.patch)>>, <<".">>)

SuffixedText(t, sfx) == VersionText(t) \o <<"-">> \o sfx

InitSuffix ==
    /\ \E t \in WellFormedTriples, sfx \in Suffixes : sfxGiven = [version |-> t, suffix |-> sfx]
    /\ sfxPlain = NotCalled /\ sfxFull = NotCalled
    /\ VersionIdle /\ ParseIdle /\ EntryIdle /\ ThreadsIdle

SuffixFrame ==
    UNCHANGED <<versionVars, parseVars, call, pc, releaseVars, psiVars, statVars, threadVars, sfxGiven>>

FromStrPlain ==
    /\ sfxPlain = NotCalled
    /\ sfxPlain' = OsReleaseFromStr(VersionText(sfxGiven.version))
    /\ UNCHANGED sfxFull /\ SuffixFrame

FromStrSuffixed ==
    /\ sfxFull = NotCalled
    /\ sfxFull' = OsReleaseFromStr(SuffixedText(sfxGiven.version, sfxGiven.suffix))
    /\ UNCHANGED sfxPlain /\ SuffixFrame

NextSuffix == FromStrPlain \/ FromStrSuffixed

SpecSuffix == InitSuffix /\ [][NextSuffix]_vars

\* --- threads dereferencing the lazy_static KERNEL_VERSION ---
\* lazy_static guards the initialiser with a Once: the first thread to find
\* it incomplete takes it (it becomes running) and runs the initialiser,
\* threads that find it running block until it is complete or poisoned, a
\* panic of the initialiser poisons it, and the value is read only once it
\* is complete.  The mutant lets a thread enter without taking the Once.
OnceEnterUnclaimed(state) == state

OnceEnter(state) == IF state = "uninit" THEN "running" ELSE state

InitThreads ==
    /\ call = "none" /\ pc = "off"
    /\ relFile \in ReleaseFiles /\ relText = <<>> /\ relRes = Err(NoRelease)
    /\ psiDomain = "Cpu" /\ psiFile = Absent /\ psiGiven = NothingGiven
    /\ kernelVersion = KernelVersionUninit
    /\ psiNbVar = 0 /\ psiRes = None
    /\ statFile = Absent /\ statPos = 1 /\ stats = StatDefault
    /\ thPc = [t \in Threads |-> "idle"] /\ thLeft = [t \in Threads |-> MaxAccesses]
    /\ thLocal = [t \in Threads |-> NoRelease] /\ thSeen = [t \in Threads |-> NotSeen]
    /\ kvRuns = 0 /\ kvPublished = <<>>
    /\ VersionIdle /\ ParseIdle /\ SuffixIdle

ThreadFrame ==
    UNCHANGED <<versionVars, parseVars, call, pc, releaseVars, psiDomain, psiFile, psiGiven,
                psiNbVar, psiRes, statVars, suffixVars>>

\* The value of the static as a thread reads it once the Once is complete
KvRead(t) ==
    /\ thSeen' = [thSeen EXCEPT ![t] = Seen(kernelVersion.val)]
    /\ thLeft' = [thLeft EXCEPT ![t] = @ - 1]
    /\ thPc' = [thPc EXCEPT ![t] = "idle"]
    /\ UNCHANGED <<kernelVersion, thLocal, kvRuns, kvPublished>>

KvPanic(t) ==
    /\ thPc' = [thPc EXCEPT ![t] = "panicked"]
    /\ UNCHANGED <<kernelVersion, thLeft, thLocal, thSeen, kvRuns, kvPublished>>

\* `KERNEL_VERSION.version_code`: the dereference reaches the Once
KvAccess(t) ==
    /\ thPc[t] = "idle" /\ thLeft[t] > 0
    /\ IF kernelVersion.state = "ready" THEN KvRead(t)
       ELSE IF kernelVersion.state = "poisoned" THEN KvPanic(t)
       ELSE IF kernelVersion.state = "running"
       THEN /\ thPc' = [thPc EXCEPT ![t] = "waiting"]
            /\ UNCHANGED <<kernelVersion, thLeft, thLocal, thSeen, kvRuns, kvPublished>>
       ELSE /\ kernelVersion' = [kernelVersion EXCEPT !.state = OnceEnter(@)]
            /\ thPc' = [thPc EXCEPT ![t] = "init"]
            /\ UNCHANGED <<thLeft, thLocal, thSeen, kvRuns, kvPublished>>
    /\ ThreadFrame

\* A blocked thread goes on when the Once is complete or poisoned
KvWake(t) ==
    /\ thPc[t] = "waiting" /\ kernelVersion.state \in {"ready", "poisoned"}
    /\ IF kernelVersion.state = "ready" THEN KvRead(t) ELSE KvPanic(t)
    /\ ThreadFrame

\* The initialiser: OsRelease::current().unwrap()
KvInitRun(t) ==
    /\ thPc[t] = "init"
    /\ kvRuns' = kvRuns + 1
    /\ LET r == OsReleaseCurrent(relFile)
       IN  IF r.tag = "Ok"
           THEN /\ thLocal' = [thLocal EXCEPT ![t] = r.val]
                /\ thPc' = [thPc EXCEPT ![t] = "write"]
                /\ UNCHANGED kernelVersion
           ELSE /\ kernelVersion' = [kernelVersion EXCEPT !.state = "poisoned"]
                /\ thPc' = [thPc EXCEPT ![t] = "panicked"]
                /\ UNCHANGED thLocal
    /\ UNCHANGED <<thLeft, thSeen, kvPublished>>
    /\ ThreadFrame

\* The value is stored into the static while the Once is still running
KvInitWrite(t) ==
    /\ thPc[t] = "write"
    /\ kernelVersion' = [kernelVersion EXCEPT !.val = thLocal[t]]
    /\ thPc' = [thPc EXCEPT ![t] = "publish"]
    /\ UNCHANGED <<thLeft, thLocal, thSeen, kvRuns, kvPublished>>
    /\ ThreadFrame

\* The Once becomes complete; the initialising thread then reads the value
KvInitPublish(t) ==
    /\ thPc[t] = "publish"
    /\ kernelVersion' = [kernelVersion EXCEPT !.state = "ready"]
    /\ kvPublished' = Append(kvPublished, kernelVersion.val)
    /\ thPc' = [thPc EXCEPT ![t] = "idle"]
    /\ UNCHANGED <<thLeft, thLocal, thSeen, kvRuns>>
    /\ ThreadFrame

NextThreads ==
    \E t \in Threads : KvAccess(t) \/ KvWake(t) \/ KvInitRun(t) \/ KvInitWrite(t) \/ KvInitPublish(t)

SpecThreads == InitThreads /\ [][NextThreads]_vars

\* --- one from_str of a record parser on one line ---
InitParse ==
    /\ pKind \in Kinds /\ pDebug \in BOOLEAN /\ pRes = Pending
    /\ \E kw \in KeywordsOf(pKind), n \in 0..MaxCounters, eol \in Terminators :
          \E bad \in {0, 1, n}, sep \in Separators :
             /\ pLine = ParseLine(kw, n, bad, sep, eol)
             /\ pGiven = ParseGiven(kw, n, IF bad \in 1..n THEN bad ELSE 0)
    /\ VersionIdle /\ EntryIdle /\ OtherIdle

Parsing(kind) == pKind = kind /\ pRes = Pending

ParseFrame == UNCHANGED <<versionVars, pLine, pGiven, pKind, pDebug, call, otherVars, pc, releaseVars, psiVars, statVars>>

ParseCpu == Parsing("cpu") /\ pRes' = CpuStatFromStr(pLine, pDebug) /\ ParseFrame

ParseSoftirq == Parsing("softirq") /\ pRes' = SoftirqsFromStr(pLine, pDebug) /\ ParseFrame

ParseDouble == Parsing("double") /\ pRes' = DoubleU64StatFromStr(pLine) /\ ParseFrame

\* SimpleU64Stat is a tuple struct around one u64
ParseSimple ==
    /\ Parsing("simple")
    /\ pRes' = Let1(LAMBDA r : [tag |-> r.tag, val |-> [value |-> r.val]], SimpleU64StatFromStr(pLine))
    /\ ParseFrame

NextParse == ParseCpu \/ ParseSoftirq \/ ParseDouble \/ ParseSimple

SpecParse == InitParse /\ [][NextParse]_vars

(***************************************************************************)
(* Properties of the version code (SpecVersion)                            *)
(***************************************************************************)
Saturated(p) == IF p > 255 THEN 255 ELSE p

LexLess(a, b) ==
    \/ a.major < b.major
    \/ a.major = b.major /\ a.minor < b.minor
    \/ a.major = b.major /\ a.minor = b.minor /\ Saturated(a.patch) < Saturated(b.patch)

\* C1: two versions with the same major and minor whose patches are both
\* >= 255 have the same version code and are equal as OsRelease values,
\* whatever their patch fields are.
C1_SaturatedPatchesEqual ==
    (vpc = "done" /\ va.major = vb.major /\ va.minor = vb.minor
        /\ va.patch >= 255 /\ vb.patch >= 255)
    => /\ ra.version_code = rb.version_code
       /\ OsReleaseEq(ra, rb)
       /\ ra.patch = va.patch /\ rb.patch = vb.patch

C1_Witness ==
    /\ vpc = "done" /\ va.major = vb.major /\ va.minor = vb.minor
    /\ va.patch = 255 /\ vb.patch = 300
    /\ OsReleaseEq(ra, rb) /\ ra.patch # rb.patch

\* C2: the version code orders versions lexicographically on
\* (major, minor, min(patch, 255)), fits in 32 bits, and has the documented
\* values for 3.18.0, 5.14.12 and 4.4.288.
C2_LexicographicOrder ==
    vpc = "done"
    => /\ (ra.version_code < rb.version_code) <=> LexLess(va, vb)
       /\ OsReleaseLt(ra, rb) <=> LexLess(va, vb)
       /\ ra.version_code >= 0 /\ ra.version_code \div 65536 < 65536
       /\ (va = [major |-> 3, minor |-> 18, patch |-> 0]) => ra.version_code = 201216
       /\ (va = [major |-> 5, minor |-> 14, patch |-> 12]) => ra.version_code = 331276
       /\ (va = [major |-> 4, minor |-> 4, patch |-> 288]) => ra.version_code = 263423

C2_Witness ==
    /\ vpc = "done"
    /\ va = [major |-> 4, minor |-> 4, patch |-> 288]
    /\ vb = [major |-> 4, minor |-> 14, patch |-> 0]
    /\ ra.version_code = 263423 /\ ra.version_code < rb.version_code

(***************************************************************************)
(* Properties of the pressure reader (Spec)                                *)
(***************************************************************************)
PressureReturned == call = "pressure" /\ pc = "returned"

\* The release KERNEL_VERSION holds is 5.13.0 or later
AtLeast5_13 ==
    \/ kernelVersion.val.major > 5
    \/ kernelVersion.val.major = 5 /\ kernelVersion.val.minor >= 13

\* C3: PressureStore::new scans Mem and Io with the 8-field format, and Cpu
\* with the 8-field format exactly when KERNEL_VERSION.version_code >=
\* kernel_version(5,13,0), otherwise with the 4-field format; under the
\* 4-field format a file holding the "some" line is accepted and the
\* snapshot's full.avg10, full.avg60, full.avg300 and full.total are zero.
C3_GrammarByDomainAndVersion ==
    PressureReturned
    => /\ psiDomain \in {"Mem", "Io"} => psiNbVar = PRESSURE_FMT_NB_VAR
       /\ psiDomain = "Cpu"
          => /\ kernelVersion.state = "ready"
             /\ psiNbVar = PRESSURE_FMT_NB_VAR
                <=> kernelVersion.val.version_code >= kernel_version(5, 13, 0)
             /\ psiNbVar = PRESSURE_FMT_NB_VAR <=> AtLeast5_13
             /\ psiNbVar = PRESSURE_FMT_CPU_OLD_NB_VAR <=> ~AtLeast5_13
       /\ (psiNbVar = PRESSURE_FMT_CPU_OLD_NB_VAR /\ psiFile.exists /\ psiGiven.fields >= 4)
          => /\ psiRes.tag = "Some"
             /\ psiRes.val.some = psiGiven.some
             /\ psiRes.val.full = PressureAvgDefault
       /\ (psiNbVar = PRESSURE_FMT_NB_VAR /\ psiFile.exists /\ psiGiven.fields = 4)
          => psiRes.tag = "None"

C3_Witness ==
    /\ PressureReturned /\ psiDomain = "Cpu"
    /\ psiNbVar = PRESSURE_FMT_CPU_OLD_NB_VAR
    /\ psiFile.exists /\ psiGiven.fields = 4 /\ psiGiven.some.total = 123456
    /\ psiRes.tag = "Some" /\ psiRes.val.some.total = 123456
    /\ psiRes.val.full = PressureAvgDefault

\* C4: a pressure read returns a snapshot if and only if the file could be
\* opened and as many fields matched as the selected format has; a missing
\* file and a partial match both give None, and a snapshot returned has
\* every field of the format filled from the file.
C4_SnapshotIffAllFieldsMatched ==
    PressureReturned
    => /\ psiRes.tag = "Some" <=> (psiFile.exists /\ psiGiven.fields >= psiNbVar)
       /\ psiRes.tag \in {"Some", "None"}
       /\ psiRes.tag = "None" => psiRes.val = PressureStoreDefault
       /\ psiRes.tag = "Some"
          => /\ psiRes.val.some = psiGiven.some
             /\ psiNbVar = PRESSURE_FMT_NB_VAR => psiRes.val.full = psiGiven.full

C4_Witness ==
    /\ PressureReturned /\ psiFile.exists
    /\ psiNbVar = PRESSURE_FMT_NB_VAR /\ psiGiven.fields = 6
    /\ psiGiven.full.avg10 = 225
    /\ psiRes = None

(***************************************************************************)
(* Properties of the stat aggregator (Spec)                                *)
(***************************************************************************)
StatCall == call = "stat" /\ statFile.exists

HasLine(l) == \E i \in 1..Len(statFile.data) : statFile.data[i] = l

\* Lines of a known section that its parser rejects: a cpu suffix that is
\* no number, a counter that is no numeral, a counter missing
BadSectionLines == {L_cpuN, L_ctxt_float, L_page_short}

\* C5: a parse failure in one line of a known section degrades only that
\* section: the read still completes and returns a Stat in which every
\* other section carries the value parsed from its own line.
C5_BadSectionDegradesOnlyItself ==
    (StatCall /\ ~HasLine(L_empty))
    => /\ pc # "panicked"
       /\ pc = "returned"
          => /\ HasLine(L_btime) => stats.btime = 12345
             /\ HasLine(L_processes) => stats.processes = 42
             /\ HasLine(L_softirq) => stats.softirqs.rcu = 51240672

Keywords == {W_btime, W_ctxt, W_processes, W_procs_blocked, W_procs_running, W_softirq, W_page, W_swap}

\* The leading token of line l is no keyword and does not start with "cpu"
Unsupported(l) ==
    LET toks == SplitWhitespace(l)
    IN  Len(toks) > 0 /\ toks[1] \notin Keywords /\ ~StartsWith(toks[1], W_cpu)

AtLine == call = "stat" /\ pc = "reading" /\ statPos <= Len(statFile.data)

\* C6: a line whose leading token is neither one of the eight keywords nor
\* starts with "cpu" is skipped: the read goes on to the next line, and
\* every field of the accumulated Stat is the same after the line as before
\* it, wherever the line occurs in the file.
C6_UnsupportedLineSkipped ==
    [][(AtLine /\ Unsupported(statFile.data[statPos]))
       => (stats' = stats /\ pc' = "reading" /\ statPos' = statPos + 1)]_vars

C6_Witness ==
    /\ call = "stat" /\ pc = "returned" /\ statFile = File(Fixture)
    /\ stats.btime = 12345 /\ stats.ctxt = 115315
    /\ Len(stats.cpus) = 2
    /\ stats.cpus[1].cpu_number = -1 /\ stats.cpus[1].user = 10132153
    /\ stats.cpus[2].cpu_number = 0 /\ stats.cpus[2].guest = 23933

(***************************************************************************)
(* Properties of the release readers (Spec)                                *)
(***************************************************************************)
\* The dot-separated components of a release text without its terminator
\* and without what follows the first dash
Components(text) == SplitOn(SplitOn(TrimEol(text), "-")[1], ".")

IsDecimal(t) == Len(t) > 0 /\ AllDigits(t)

Malformed(text) ==
    LET c == Components(text)
    IN  Len(c) < 3 \/ \E i \in 1..3 : ~IsDecimal(c[i])

\* C7: decoding a release string with fewer than three dot-separated
\* components, or with one of the first three components not a decimal
\* number, returns an error result to the caller and no OsRelease, from
\* OsRelease::from_str and from OsRelease::current alike.
C7_MalformedIsError ==
    /\ (call = "from_str" /\ pc # "start" /\ Malformed(relText))
       => (pc = "returned" /\ relRes.tag = "Err")
    /\ (call = "current" /\ pc # "start" /\ relFile.exists /\ Malformed(relFile.data))
       => (pc = "returned" /\ relRes.tag = "Err")

\* C8 as stated: when the pseudo-file cannot be opened, OsRelease::current
\* and Stat::new return the failure to the caller as an error value and do
\* not abort.
C8_OpenFailureIsErrorValue ==
    /\ (call = "current" /\ pc # "start" /\ ~relFile.exists)
       => (pc = "returned" /\ relRes.tag = "Err")
    /\ (call = "stat" /\ pc # "start" /\ ~statFile.exists) => pc = "returned"

\* C8: when the pseudo-file cannot be opened, OsRelease::current and
\* Stat::new panic: the call does not return, so the caller gets neither an
\* error value nor a default record; the first use of KERNEL_VERSION panics
\* likewise.
C8_OpenFailurePanics ==
    /\ (call = "current" /\ pc # "start" /\ ~relFile.exists)
       => (pc = "panicked" /\ relRes.tag = "Panic")
    /\ (call = "stat" /\ pc # "start" /\ ~statFile.exists) => pc = "panicked"
    /\ (call = "pressure" /\ psiDomain = "Cpu" /\ pc # "start" /\ ~relFile.exists)
       => (pc = "panicked" /\ kernelVersion.state = "poisoned")

C8_Witness ==
    /\ call = "current" /\ ~relFile.exists
    /\ pc = "panicked" /\ relRes.tag = "Panic"

(***************************************************************************)
(* Properties of the record parsers (SpecParse)                            *)
(***************************************************************************)
Parsed(kind) == pKind = kind /\ pRes # Pending

Suffix == Drop(pGiven.kw, 3)

Required(kind) ==
    IF kind = "cpu" THEN CpuFields
    ELSE IF kind = "softirq" THEN SoftirqFields
    ELSE IF kind = "double" THEN DoubleFields
    ELSE SimpleFields

\* C9: the keyword "cpu" gives cpu_number -1; any other keyword starting
\* with "cpu" parses only if what follows the prefix is a non-negative
\* integer N, and then cpu_number = N; any other suffix, "N" or "-1" for
\* instance, makes from_str return an error, so that a parsed record has
\* cpu_number -1 only for the keyword "cpu".  Stated of lines that carry
\* all their counters, so that only the keyword decides.
C9_CpuKeywordRule ==
    (Parsed("cpu") /\ pGiven.n >= CpuFields /\ pGiven.bad = 0)
    => /\ pRes.tag = "Ok"
          => /\ pGiven.kw = W_cpu => pRes.val.cpu_number = -1
             /\ pGiven.kw # W_cpu
                => (IsDecimal(Suffix) /\ pRes.val.cpu_number = DecValue(Suffix, 0))
             /\ pRes.val.cpu_number = -1 => pGiven.kw = W_cpu
       /\ (pGiven.kw # W_cpu /\ ~IsDecimal(Suffix)) => pRes.tag = "Err"

\* C10: a line with fewer tokens than the keyword plus the counters its
\* record requires (10 for CpuStat, 11 for Softirqs, 2 for Page and Swap, 1
\* for the scalar counters) makes from_str return an error result and no
\* record, down to a line holding only the keyword.
C10_TooFewFieldsIsError ==
    (pRes # Pending /\ pGiven.n < Required(pKind)) => pRes.tag = "Err"

(***************************************************************************)
(* Properties of the suffix of a release text (SpecSuffix)                 *)
(***************************************************************************)
\* C11: for a well-formed version text V and any suffix S, from_str of
\* V-S succeeds and returns the version_code, major, minor and patch that
\* from_str(V) returns, also when S contains dashes or dots; both are the
\* numbers V was written from.
C11_SuffixStripped ==
    /\ sfxFull # NotCalled
       => /\ sfxFull.tag = "Ok"
          /\ sfxFull.val.major = sfxGiven.version.major
          /\ sfxFull.val.minor = sfxGiven.version.minor
          /\ sfxFull.val.patch = sfxGiven.version.patch
    /\ sfxPlain # NotCalled => sfxPlain.tag = "Ok"
    /\ (sfxFull # NotCalled /\ sfxPlain # NotCalled)
       => /\ sfxFull.val.version_code = sfxPlain.val.version_code
          /\ sfxFull.val.major = sfxPlain.val.major
          /\ sfxFull.val.minor = sfxPlain.val.minor
          /\ sfxFull.val.patch = sfxPlain.val.patch

C11_Witness ==
    /\ sfxGiven.version = [major |-> 5, minor |-> 14, patch |-> 12]
    /\ sfxGiven.suffix = <<"r", "c", "1", "-", "x", ".", "y">>
    /\ sfxPlain.tag = "Ok" /\ sfxFull.tag = "Ok"
    /\ sfxFull.val.version_code = 331276 /\ sfxPlain.val.version_code = 331276

(***************************************************************************)
(* Properties of the Stat a read accumulates (Spec)                        *)
(***************************************************************************)
\* The lines of the file the loop has gone through
LinesDone == SubSeq(statFile.data, 1, statPos - 1)

LeadsWithCpu(l) ==
    LET toks == SplitWhitespace(l)
    IN  Len(toks) > 0 /\ StartsWith(toks[1], W_cpu)

\* The lines a file may hold whose leading token starts with "cpu"
CpuLedLines == {l \in StatLines \cup {L_blank, L_processes, L_softirq} : LeadsWithCpu(l)}

IsCpuLed(l) == l \in CpuLedLines

\* The record a well-formed cpu line of the inputs was written from
WrittenCpu(l) == IF l = L_cpu THEN CpuStatOf(-1, CpuCounters) ELSE CpuStatOf(0, Cpu0Counters)

StatProgress == call = "stat" /\ pc \in {"reading", "returned"}

\* C12: the cpus of the Stat hold exactly one record per line whose leading
\* token starts with "cpu", in the order of those lines in the file,
\* whatever lines stand between them; this holds of the Stat accumulated
\* after every line, and so of the Stat returned.
C12_CpuSequenceInFileOrder ==
    StatProgress
    => LET cpuLines == SelectSeq(LinesDone, IsCpuLed)
       IN  /\ Len(stats.cpus) = Len(cpuLines)
           /\ \A k \in 1..Len(cpuLines) : stats.cpus[k] = WrittenCpu(cpuLines[k])

C12_Witness ==
    /\ call = "stat" /\ pc = "returned"
    /\ statFile.data = <<L_cpu0, L_unknown, L_cpu>>
    /\ Len(stats.cpus) = 2
    /\ stats.cpus[1].cpu_number = 0 /\ stats.cpus[2].cpu_number = -1

\* Lines every parser accepts
GoodLines == {L_cpu, L_cpu0, L_btime, L_ctxt, L_ctxt2, L_processes, L_page, L_softirq, L_unknown}

\* The positions of the lines done that are among the lines ls
Positions(ls) == {i \in 1..Len(LinesDone) : LinesDone[i] \in ls}

Last(S) == CHOOSE i \in S : \A j \in S : j <= i

Tokenless(l) == SplitWhitespace(l) = <<>>

\* C16: a line that holds no token does not fail the read: it is passed
\* over, the accumulated Stat is unchanged, and the lines after it are
\* still processed.
C16_TokenlessLinePassedOver ==
    (call = "stat" /\ statFile.exists
       /\ \A i \in 1..Len(statFile.data) : statFile.data[i] \in GoodLines \/ Tokenless(statFile.data[i]))
    => /\ pc # "panicked"
       /\ pc = "returned" /\ statFile.data = BlankInside
          => stats.btime = 12345 /\ stats.ctxt = 115315

(***************************************************************************)
(* Positional decoding by the record parsers (SpecParse)                   *)
(***************************************************************************)
\* The line handed to the parser has a keyword the parser accepts, all the
\* counters its record requires, and numerals only
WellFormedLine ==
    /\ pGiven.bad = 0 /\ pGiven.n >= Required(pKind)
    /\ pKind = "cpu" => (pGiven.kw = W_cpu \/ IsDecimal(Suffix))

\* C13: for a well-formed line the k-th declared counter of the record is
\* the decimal value of token k of the line: CpuStat takes user .. guest_nice
\* from tokens 1..10, Softirqs all .. rcu from tokens 1..11, Page and Swap
\* ins, out from tokens 1..2, whatever white space separates the tokens and
\* with or without a line terminator.
C13_PositionalDecoding ==
    (pRes # Pending /\ WellFormedLine)
    => /\ pRes.tag = "Ok"
       /\ pKind = "cpu"
          => /\ pRes.val.user = CounterValue(1) /\ pRes.val.nice = CounterValue(2)
             /\ pRes.val.system = CounterValue(3) /\ pRes.val.idle = CounterValue(4)
             /\ pRes.val.iowait = CounterValue(5) /\ pRes.val.irq = CounterValue(6)
             /\ pRes.val.softirq = CounterValue(7) /\ pRes.val.steal = CounterValue(8)
             /\ pRes.val.guest = CounterValue(9) /\ pRes.val.guest_nice = CounterValue(10)
       /\ pKind = "softirq"
          => /\ pRes.val.all = CounterValue(1) /\ pRes.val.hi = CounterValue(2)
             /\ pRes.val.timer = CounterValue(3) /\ pRes.val.net_tx = CounterValue(4)
             /\ pRes.val.net_rx = CounterValue(5) /\ pRes.val.block = CounterValue(6)
             /\ pRes.val.irq_poll = CounterValue(7) /\ pRes.val.tasklet = CounterValue(8)
             /\ pRes.val.sched = CounterValue(9) /\ pRes.val.hrtimer = CounterValue(10)
             /\ pRes.val.rcu = CounterValue(11)
       /\ pKind = "double"
          => pRes.val.ins = CounterValue(1) /\ pRes.val.out = CounterValue(2)
       /\ pKind = "simple" => pRes.val.value = CounterValue(1)

C13_Witness ==
    /\ pKind = "softirq" /\ pGiven.n = SoftirqFields /\ pGiven.bad = 0
    /\ \E i \in 1..Len(pLine) : pLine[i] = "\t"
    /\ pLine[Len(pLine)] = "\n"
    /\ pRes.tag = "Ok" /\ pRes.val.all = 1007 /\ pRes.val.rcu = 11007

(***************************************************************************)
(* Properties of the shared KERNEL_VERSION (SpecThreads)                   *)
(***************************************************************************)
\* C14: KERNEL_VERSION is initialised at most once and never changes
\* afterwards: however the threads interleave, the initialiser runs at most
\* once and publishes at most one value, every access observes that same
\* value, which is the complete record decoded from the release file, and
\* no access observes the static before it is published.
C14_InitialisedOnce ==
    /\ kvRuns <= 1 /\ Len(kvPublished) <= 1
    /\ kernelVersion.state = "ready"
       => (Len(kvPublished) = 1 /\ kernelVersion.val = kvPublished[1])
    /\ \A t \in Threads :
          thSeen[t] # NotSeen
          => /\ Len(kvPublished) = 1 /\ thSeen[t].val = kvPublished[1]
             /\ OsReleaseCurrent(relFile) = Ok(thSeen[t].val)
             /\ \A u \in Threads : thSeen[u] # NotSeen => thSeen[u] = thSeen[t]

C14_Witness ==
    /\ \A t \in Threads : thSeen[t] # NotSeen /\ thLeft[t] = 0 /\ thSeen[t].val.version_code = 331276
    /\ kvRuns = 1 /\ kernelVersion.state = "ready"

====
